---- MODULE Spec2Model ----
(***************************************************************************)
(* A model of gcphelper's output layer: output.Formatter and the resource  *)
(* kinds it renders (folders.Folder, organizations.Organization and the    *)
(* test double mockResource), and of what feeds it: the conversion of the  *)
(* API's wire records, the fetch over the API's iterator, and the adapters *)
(* from the fetched lists to the formatter's resources.                    *)
(*                                                                         *)
(* A Go string is a sequence of one-character strings, so that formatting, *)
(* escaping and parsing are computed character by character.  The sink     *)
(* (Formatter.writer) and os.Stderr are the sequences of characters        *)
(* written to them so far.                                                 *)
(***************************************************************************)
EXTENDS Integers, Sequences, FiniteSets, TLC

VARIABLES
    f,        \* the Formatter: [verbose, resourceType, fails], fails the
              \* numbers of the Write calls that f.writer rejects
    writer,   \* the characters written to f.writer, the data sink
    stderr,   \* the characters written to os.Stderr, the diagnostic stream
    pc,       \* "ready" before the Format call, "done" after it
    args,     \* the arguments of the Format call: [resources, format, headers]
    err,      \* the error the Format call returned
    rejected, \* the number of Write calls f.writer rejected during the call
    calls,    \* the arguments of the Format calls made so far, in order
    heap,     \* the Folder and Organization objects the conversions made
    client,   \* the kind the fetch or conversion is for
    opts,     \* the options the fetcher was called with: [isNil, Parent]
    req,      \* the search request sent: [Query]
    it,       \* the search's iterator: [recs, end, pos], the records it
              \* answers with, how it ends, how many it has answered
    list,     \* the list the fetch is building: a slice of pointers
    fpc,      \* "start", "loop", "returned", "adapted" or "converted"
    ret,      \* what the fetch returned: [list, err]
    adapted,  \* the adapter call: its input list and the list it returned
    conv,     \* the conversion called by itself: its input, its pointer
    cmd,      \* what is run and its inputs: [name, parentFolder,
              \* parentOrganization, format, verbose]
    cpc,      \* the command's position: "start", "created", "validated",
              \* "fetching", "fetched", "closing" or "returned"
    events,   \* the calls the command has made, in order
    service,  \* the Service: [created, arg, fetcherCalls, ret, closed]
    cret      \* the error the command returned

\* The formatter and its streams.
fmtVars == <<f, writer, stderr, pc, args, err, rejected, calls>>

\* The fetch, the conversions and the adapters.
fetchVars == <<heap, client, opts, req, it, list, fpc, ret, adapted, conv>>

\* The command and its service.
cmdVars == <<cmd, cpc, events, service, cret>>

vars == <<fmtVars, fetchVars, cmdVars>>

\* The longest resource list passed to Format.
MaxLen == 2

----------------------------------------------------------------------------
(* Strings *)

Chars(s) == [i \in 1..Len(s) |-> SubSeq(s, i, i)]

NL == "\n"
QUOTE == "\""
BACKSLASH == "\\"

RECURSIVE Concat(_)
\* The concatenation of a sequence of strings.
Concat(ss) == IF ss = <<>> THEN <<>> ELSE Head(ss) \o Concat(Tail(ss))

RECURSIVE Join(_, _)
\* strings.Join: the strings of ss with sep between them.
Join(ss, sep) ==
    IF ss = <<>> THEN <<>>
    ELSE IF Len(ss) = 1 THEN Head(ss)
    ELSE Head(ss) \o sep \o Join(Tail(ss), sep)

Repeat(c, n) == [i \in 1..n |-> c]

\* strings.Contains
Contains(s, t) ==
    \E i \in 1..(Len(s) - Len(t) + 1) : SubSeq(s, i, i + Len(t) - 1) = t

\* strings.HasPrefix
HasPrefix(s, t) == Len(s) >= Len(t) /\ SubSeq(s, 1, Len(t)) = t

\* strings.ContainsAny
ContainsAny(s, cs) == \E i \in 1..Len(s) : s[i] \in cs

LowerLetters == Chars("abcdefghijklmnopqrstuvwxyz")
UpperLetters == Chars("ABCDEFGHIJKLMNOPQRSTUVWXYZ")

ToUpperChar(c) ==
    IF \E i \in 1..Len(LowerLetters) : LowerLetters[i] = c
    THEN UpperLetters[CHOOSE i \in 1..Len(LowerLetters) : LowerLetters[i] = c]
    ELSE c

\* strings.ToUpper
ToUpper(s) == [i \in 1..Len(s) |-> ToUpperChar(s[i])]

Max(a, b) == IF a >= b THEN a ELSE b

----------------------------------------------------------------------------
(* time.Time, in UTC with whole seconds *)

ZeroTime == [Y |-> 1, M |-> 1, D |-> 1, h |-> 0, m |-> 0, s |-> 0]
Time2023 == [Y |-> 2023, M |-> 6, D |-> 1, h |-> 12, m |-> 30, s |-> 5]

Digit(n) == SubSeq("0123456789", n + 1, n + 1)
Pad2(n) == <<Digit((n \div 10) % 10), Digit(n % 10)>>
Pad4(n) == <<Digit((n \div 1000) % 10), Digit((n \div 100) % 10)>> \o Pad2(n)

\* t.Format("2006-01-02 15:04:05")
FormatTime(t) ==
    Pad4(t.Y) \o <<"-">> \o Pad2(t.M) \o <<"-">> \o Pad2(t.D) \o <<" ">>
    \o Pad2(t.h) \o <<":">> \o Pad2(t.m) \o <<":">> \o Pad2(t.s)

----------------------------------------------------------------------------
(* Resources *)

\* A *folders.Folder, a *organizations.Organization (Parent unused) or a
\* *mockResource (Name and Parent unused), behind the Resource interface.
Res(kind, id, name, display, parent, state, ct, ut) ==
    [kind |-> kind, ID |-> Chars(id), Name |-> Chars(name),
     DisplayName |-> Chars(display), Parent |-> Chars(parent),
     State |-> Chars(state), CreateTime |-> ct, UpdateTime |-> ut]

Folders ==
    { Res("folder", "12", "folders/12", "a,b", "organizations/7", "ACTIVE",
          ZeroTime, Time2023),
      Res("folder", "3", "folders/3", "q\"t", "folders/12", "ACTIVE",
          Time2023, Time2023) }

Organizations ==
    { Res("organization", "7", "organizations/7", "Org x", "", "ACTIVE",
          Time2023, ZeroTime),
      Res("organization", "45", "organizations/45", "", "",
          "DELETE_REQUESTED", ZeroTime, ZeroTime) }

Mocks ==
    { Res("mock", "9", "", "Test 1", "", "ACTIVE", Time2023, Time2023),
      Res("mock", "10", "", "x,\"y\"", "", "INACTIVE", ZeroTime, Time2023) }

GetID(r) == r.ID

GetDisplayName(r) == r.DisplayName

\* TableRow with the state ahead of the display name
TableRow_StateFirst(r) ==
    IF r.kind = "folder"
    THEN <<r.ID, r.State, r.DisplayName, r.Parent,
           FormatTime(r.CreateTime), FormatTime(r.UpdateTime)>>
    ELSE <<r.ID, r.State, r.DisplayName,
           FormatTime(r.CreateTime), FormatTime(r.UpdateTime)>>

\* Folder.TableRow, Organization.TableRow and mockResource.TableRow
TableRow(r) ==
    IF r.kind = "folder"
    THEN <<r.ID, r.DisplayName, r.Parent, r.State,
           FormatTime(r.CreateTime), FormatTime(r.UpdateTime)>>
    ELSE <<r.ID, r.DisplayName, r.State,
           FormatTime(r.CreateTime), FormatTime(r.UpdateTime)>>

FolderHeaders ==
    <<Chars("ID"), Chars("Display Name"), Chars("Parent"), Chars("State"),
      Chars("Create Time"), Chars("Update Time")>>

OrganizationHeaders ==
    <<Chars("ID"), Chars("Display Name"), Chars("State"),
      Chars("Create Time"), Chars("Update Time")>>

\* The headers of the formatter's own tests.
TestHeaders ==
    <<Chars("ID"), Chars("Name"), Chars("State"), Chars("Created"),
      Chars("Updated")>>

----------------------------------------------------------------------------
(* A []Resource: nil, or an allocated slice of items *)

NilSlice == [isNil |-> TRUE, items |-> <<>>]
Slice(items) == [isNil |-> FALSE, items |-> items]

ListsOf(S) == UNION { [1..n -> S] : n \in 1..MaxLen }

\* The calls Format receives: a list of one kind with headers as wide as
\* the kind's rows, or an empty or nil list with any of the header lists.
CallInputs ==
    { <<l, h>> : l \in {NilSlice, Slice(<<>>)},
                 h \in {FolderHeaders, OrganizationHeaders, TestHeaders} }
    \cup { <<Slice(l), FolderHeaders>> : l \in ListsOf(Folders) }
    \cup { <<Slice(l), h>> : l \in ListsOf(Organizations),
                             h \in {OrganizationHeaders, TestHeaders} }
    \cup { <<Slice(l), h>> : l \in ListsOf(Mocks),
                             h \in {OrganizationHeaders, TestHeaders} }

\* The format selectors: the four constants and some other strings.
Selectors == {"table", "json", "csv", "id", "", "JSON", "invalid", "Table"}

ResourceTypes == {"", "folders", "organizations"}

----------------------------------------------------------------------------
(* Errors *)

NoError == [wraps |-> "nil", msg |-> <<>>]

\* fmt.Errorf("%w: %s", ErrUnsupportedOutputFormat, format)
UnsupportedFormatError(format) ==
    [wraps |-> "ErrUnsupportedOutputFormat",
     msg |-> Chars("unsupported output format") \o Chars(": ") \o Chars(format)]

\* The error f.writer returns from a Write call it rejects.
errWrite == [wraps |-> "errWrite", msg |-> Chars("write failed")]

\* fmt.Errorf(stage + ": %w", e)
WrapError(stage, e) ==
    [wraps |-> e.wraps, msg |-> Chars(stage) \o Chars(": ") \o e.msg]

\* f.writer accepts its k-th Write call of the Format call: it stores the
\* bytes and returns nil; a call it rejects stores nothing and returns
\* errWrite.
Accepts(fm, k) == k \notin fm.fails

\* What one format method does: the characters f.writer and os.Stderr
\* store, the error it returns, and how many Write calls were rejected.
Result(w, e, r) == [writer |-> w, stderr |-> e, err |-> r, rejected |-> 0]

\* The result of a format method during which k Write calls were rejected.
Rejecting(result, k) == [result EXCEPT !.rejected = k]

defaultResourceType == "resources"

\* fmt.Fprintf(os.Stderr, "No %s found.\n", resourceType)
NoneFound(fm) ==
    Chars("No ")
    \o Chars(IF fm.resourceType = "" THEN defaultResourceType
             ELSE fm.resourceType)
    \o Chars(" found.") \o <<NL>>

----------------------------------------------------------------------------
(* Formatter.formatID *)

RECURSIVE IDLines(_)
\* fmt.Fprintln(f.writer, resource.GetID()) for each resource in turn
IDLines(items) ==
    IF items = <<>> THEN <<>>
    ELSE GetID(Head(items)) \o <<NL>> \o IDLines(Tail(items))

\* formatID writing each identifier with Fprint: no newline after it
formatID_Fprint(fm, resources) ==
    IF Len(resources.items) = 0 /\ fm.verbose
    THEN Result(<<>>, NoneFound(fm), NoError)
    ELSE Result(Concat([i \in 1..Len(resources.items) |->
                           GetID(resources.items[i])]), <<>>, NoError)

\* formatID printing the empty-list notice to f.writer, not os.Stderr
formatID_NoticeToWriter(fm, resources) ==
    IF Len(resources.items) = 0 /\ fm.verbose
    THEN Result(NoneFound(fm), <<>>, NoError)
    ELSE Result(IDLines(resources.items), <<>>, NoError)

\* formatID going on to the later resources after a rejected write
formatID_ContinueOnError(fm, resources) ==
    IF Len(resources.items) = 0 /\ fm.verbose
    THEN Result(<<>>, NoneFound(fm), NoError)
    ELSE LET n == Len(resources.items)
             failed == { k \in 1..n : ~Accepts(fm, k) }
         IN Rejecting(
              Result(Concat([k \in 1..n |->
                               IF k \in failed THEN <<>>
                               ELSE GetID(resources.items[k]) \o <<NL>>]),
                     <<>>,
                     IF failed = {} THEN NoError
                     ELSE WrapError("failed to write resource ID", errWrite)),
              Cardinality(failed))

\* One Fprintln, one Write call, per resource; the first rejected call
\* ends the loop with the wrapped error.
formatID(fm, resources) ==
    IF Len(resources.items) = 0 /\ fm.verbose
    THEN Result(<<>>, NoneFound(fm), NoError)
    ELSE LET n == Len(resources.items)
             failed == { k \in 1..n : ~Accepts(fm, k) }
             written == IF failed = {} THEN n
                        ELSE (CHOOSE k \in failed :
                                \A j \in failed : k <= j) - 1
         IN IF failed = {}
            THEN Result(IDLines(resources.items), <<>>, NoError)
            ELSE Rejecting(
                   Result(IDLines(SubSeq(resources.items, 1, written)), <<>>,
                          WrapError("failed to write resource ID", errWrite)),
                   1)

----------------------------------------------------------------------------
(* Formatter.formatJSON: json.NewEncoder(f.writer), SetIndent("", "  "),   *)
(* Encode(resources)                                                       *)

\* encoding/json's escaping of one character inside a string literal
EscapeJSONChar(c) ==
    CASE c = QUOTE -> <<BACKSLASH, QUOTE>>
      [] c = BACKSLASH -> <<BACKSLASH, BACKSLASH>>
      [] c = NL -> <<BACKSLASH, "n">>
      [] OTHER -> <<c>>

RECURSIVE EscapeJSON(_)
EscapeJSON(s) ==
    IF s = <<>> THEN <<>> ELSE EscapeJSONChar(Head(s)) \o EscapeJSON(Tail(s))

\* A string written between quotes as it is, without escaping
JSONString_Raw(s) == <<QUOTE>> \o s \o <<QUOTE>>

JSONString(s) == <<QUOTE>> \o EscapeJSON(s) \o <<QUOTE>>

\* time.Time.MarshalJSON: RFC 3339, here always UTC with whole seconds
MarshalTime(t) ==
    <<QUOTE>> \o Pad4(t.Y) \o <<"-">> \o Pad2(t.M) \o <<"-">> \o Pad2(t.D)
    \o <<"T">> \o Pad2(t.h) \o <<":">> \o Pad2(t.m) \o <<":">> \o Pad2(t.s)
    \o <<"Z", QUOTE>>

\* JSONFields with a parent member for organizations as well
JSONFields_OrgParent(r) ==
    IF r.kind \in {"folder", "organization"}
    THEN << <<"id", JSONString(r.ID)>>,
            <<"name", JSONString(r.Name)>>,
            <<"display_name", JSONString(r.DisplayName)>>,
            <<"parent", JSONString(r.Parent)>>,
            <<"state", JSONString(r.State)>>,
            <<"create_time", MarshalTime(r.CreateTime)>>,
            <<"update_time", MarshalTime(r.UpdateTime)>> >>
    ELSE <<>>

\* The exported, json-tagged fields of the resource's concrete type, in
\* declaration order, each with its encoded value.  mockResource has only
\* unexported fields: encoding/json encodes none of them.
JSONFields(r) ==
    CASE r.kind = "folder" ->
           << <<"id", JSONString(r.ID)>>,
              <<"name", JSONString(r.Name)>>,
              <<"display_name", JSONString(r.DisplayName)>>,
              <<"parent", JSONString(r.Parent)>>,
              <<"state", JSONString(r.State)>>,
              <<"create_time", MarshalTime(r.CreateTime)>>,
              <<"update_time", MarshalTime(r.UpdateTime)>> >>
      [] r.kind = "organization" ->
           << <<"id", JSONString(r.ID)>>,
              <<"name", JSONString(r.Name)>>,
              <<"display_name", JSONString(r.DisplayName)>>,
              <<"state", JSONString(r.State)>>,
              <<"create_time", MarshalTime(r.CreateTime)>>,
              <<"update_time", MarshalTime(r.UpdateTime)>> >>
      [] OTHER -> <<>>

\* One member line of an indented object: four spaces, "key": value
MemberLine(kv) ==
    Chars("    ") \o JSONString(Chars(kv[1])) \o Chars(": ") \o kv[2]

\* One element of the indented array, without its leading indentation
EncodeObject(r) ==
    LET fs == JSONFields(r)
    IN IF fs = <<>> THEN Chars("{}")
       ELSE <<"{", NL>>
            \o Join([i \in 1..Len(fs) |-> MemberLine(fs[i])], <<",", NL>>)
            \o <<NL>> \o Chars("  }")

\* encoder.Encode(resources): a nil slice encodes as null, an empty one
\* as [], and Encode ends its output with a newline.
EncodeJSON(resources) ==
    IF resources.isNil THEN Chars("null") \o <<NL>>
    ELSE IF resources.items = <<>> THEN Chars("[]") \o <<NL>>
    ELSE <<"[", NL>>
         \o Join([i \in 1..Len(resources.items) |->
                     Chars("  ") \o EncodeObject(resources.items[i])],
                 <<",", NL>>)
         \o <<NL, "]", NL>>

\* formatJSON reporting an empty list on the diagnostic stream when verbose
formatJSON_NoticeWhenEmpty(fm, resources) ==
    Result(EncodeJSON(resources),
           IF fm.verbose /\ Len(resources.items) = 0 THEN NoneFound(fm)
           ELSE <<>>,
           NoError)

\* Encode hands the whole document to f.writer in one Write call.
formatJSON(fm, resources) ==
    IF Accepts(fm, 1)
    THEN Result(EncodeJSON(resources), <<>>, NoError)
    ELSE Rejecting(Result(<<>>, <<>>,
                          WrapError("failed to encode JSON", errWrite)), 1)

----------------------------------------------------------------------------
(* The go-pretty table.Writer the formatter renders with (StyleDefault).   *)
(* Every cell here is a string without tab, carriage return or newline.    *)

RECURSIVE ReplaceChar(_, _, _)
\* strings.Replace(s, c, rep, -1) for a one-character c
ReplaceChar(s, c, rep) ==
    IF s = <<>> THEN <<>>
    ELSE (IF Head(s) = c THEN rep ELSE <<Head(s)>>)
         \o ReplaceChar(Tail(s), c, rep)

RECURSIVE Itoa(_)
\* %d of a non-negative integer
Itoa(n) == IF n < 10 THEN <<Digit(n)>> ELSE Itoa(n \div 10) \o <<Digit(n % 10)>>

RECURSIVE MaxOf(_)
MaxOf(ns) == IF ns = <<>> THEN 0 ELSE Max(Head(ns), MaxOf(Tail(ns)))

\* The number of columns: the length of the longest row, header included.
NumColumns(headerRow, rows) ==
    Max(Len(headerRow), MaxOf([i \in 1..Len(rows) |-> Len(rows[i])]))

CellOf(row, c) == IF c <= Len(row) THEN row[c] ELSE <<>>

csvFixCommas(str) == ReplaceChar(str, ",", <<BACKSLASH, ",">>)

csvFixDoubleQuotes(str) == ReplaceChar(str, QUOTE, <<BACKSLASH, QUOTE>>)

\* One column of a CSV row
csvRenderColumn(colStr) ==
    IF ContainsAny(colStr, {QUOTE, ",", NL})
    THEN <<QUOTE>> \o csvFixCommas(csvFixDoubleQuotes(colStr)) \o <<QUOTE>>
    ELSE colStr

\* csvRenderRow: a newline first when something was rendered before, the
\* columns with commas between them, and one comma per missing column.
csvRenderRow(out, row, numColumns) ==
    out
    \o (IF Len(out) > 0 THEN <<NL>> ELSE <<>>)
    \o Join([c \in 1..Len(row) |-> csvRenderColumn(row[c])], <<",">>)
    \o Repeat(",", numColumns - Len(row))

RECURSIVE csvRenderRows(_, _, _)
csvRenderRows(out, rows, numColumns) ==
    IF rows = <<>> THEN out
    ELSE csvRenderRows(csvRenderRow(out, Head(rows), numColumns),
                       Tail(rows), numColumns)

\* The table writer mirroring the rendered text to f.writer
\* (t.SetOutputMirror(f.writer)): a Write call with the text and a Write
\* call with a newline, the error of either dropped; no call when the
\* text is empty.  The result is what f.writer stores and the number of
\* calls it rejected.
Mirror(fm, outStr) ==
    IF Len(outStr) > 0
    THEN [out |-> (IF Accepts(fm, 1) THEN outStr ELSE <<>>)
                  \o (IF Accepts(fm, 2) THEN <<NL>> ELSE <<>>),
          rejected |-> Cardinality({ k \in 1..2 : ~Accepts(fm, k) })]
    ELSE [out |-> <<>>, rejected |-> 0]

\* RenderCSV with the header row upper-cased, as Render renders it
RenderCSV_UpperHeader(headerRow, rows) ==
    LET n == NumColumns(headerRow, rows)
        hdr == [c \in 1..Len(headerRow) |-> ToUpper(headerRow[c])]
    IN IF n > 0
       THEN csvRenderRows(csvRenderRow(<<>>, hdr, n), rows, n)
       ELSE <<>>

\* t.RenderCSV(): the header row as given, then the rows; the text it
\* returns and mirrors
RenderCSV(headerRow, rows) ==
    LET n == NumColumns(headerRow, rows)
    IN IF n > 0
       THEN csvRenderRows(csvRenderRow(<<>>, headerRow, n), rows, n)
       ELSE <<>>

\* The width of column c: its longest cell, the upper-cased header included.
ColumnWidth(c, headerRow, rows) ==
    Max(Len(CellOf(headerRow, c)),
        MaxOf([i \in 1..Len(rows) |-> Len(CellOf(rows[i], c))]))

\* A border line: +----+------+
renderBorder(widths) ==
    <<"+">> \o Concat([c \in 1..Len(widths) |->
                          Repeat("-", widths[c] + 2) \o <<"+">>])

\* A row line: | cell | cell |, each cell left-aligned and padded
renderRowLine(row, widths) ==
    <<"|">> \o Concat([c \in 1..Len(widths) |->
                          <<" ">> \o CellOf(row, c)
                          \o Repeat(" ", widths[c] - Len(CellOf(row, c)))
                          \o <<" ", "|">>])

\* Render with the header row as given, not upper-cased
Render_PlainHeader(headerRow, rows, caption) ==
    LET n == NumColumns(headerRow, rows)
        widths == [c \in 1..n |-> ColumnWidth(c, headerRow, rows)]
        lines == <<renderBorder(widths), renderRowLine(headerRow, widths),
                   renderBorder(widths)>>
                 \o [i \in 1..Len(rows) |-> renderRowLine(rows[i], widths)]
                 \o <<renderBorder(widths)>>
    IN IF n > 0
       THEN Join(lines, <<NL>>)
            \o (IF caption # <<>> THEN <<NL>> \o caption ELSE <<>>)
       ELSE <<>>

\* t.Render(): border, upper-cased header, border, the rows, border, and
\* the caption on a line of its own when one is set; the text it returns
\* and mirrors.
Render(headerRow, rows, caption) ==
    LET n == NumColumns(headerRow, rows)
        hdr == [c \in 1..Len(headerRow) |-> ToUpper(headerRow[c])]
        widths == [c \in 1..n |-> ColumnWidth(c, hdr, rows)]
        lines == <<renderBorder(widths), renderRowLine(hdr, widths),
                   renderBorder(widths)>>
                 \o [i \in 1..Len(rows) |-> renderRowLine(rows[i], widths)]
                 \o <<renderBorder(widths)>>
    IN IF n > 0
       THEN Join(lines, <<NL>>)
            \o (IF caption # <<>> THEN <<NL>> \o caption ELSE <<>>)
       ELSE <<>>

\* resource.TableRow() of each resource, in order
Rows(items) == [i \in 1..Len(items) |-> TableRow(items[i])]

----------------------------------------------------------------------------
(* Formatter.formatCSV *)

\* formatCSV returning early on an empty list, as formatTable does
formatCSV_EmptyCheck(fm, resources, headers) ==
    IF Len(resources.items) = 0
    THEN Result(<<>>, IF fm.verbose THEN NoneFound(fm) ELSE <<>>, NoError)
    ELSE Result(Mirror(fm, RenderCSV(headers, Rows(resources.items))).out,
                <<>>, NoError)

\* The error of a mirrored Write never reaches formatCSV: it returns nil.
formatCSV(fm, resources, headers) ==
    LET m == Mirror(fm, RenderCSV(headers, Rows(resources.items)))
    IN Rejecting(Result(m.out, <<>>, NoError), m.rejected)

----------------------------------------------------------------------------
(* Formatter.formatTable *)

\* SetCaption called whether verbose or not
Caption_Always(fm, resources) ==
    Chars("Total ")
    \o Chars(IF fm.resourceType = "" THEN defaultResourceType
             ELSE fm.resourceType)
    \o Chars(": ") \o Itoa(Len(resources.items))

\* t.SetCaption("Total %s: %d", resourceType, len(resources)) when verbose
Caption(fm, resources) ==
    IF fm.verbose
    THEN Chars("Total ")
         \o Chars(IF fm.resourceType = "" THEN defaultResourceType
                  ELSE fm.resourceType)
         \o Chars(": ") \o Itoa(Len(resources.items))
    ELSE <<>>

\* formatTable without its empty-list return: renders a header-only table
formatTable_NoEmptyCheck(fm, resources, headers) ==
    Result(Mirror(fm, Render(headers, Rows(resources.items),
                             Caption(fm, resources))).out,
           <<>>, NoError)

\* The error of a mirrored Write never reaches formatTable: it returns nil.
formatTable(fm, resources, headers) ==
    IF Len(resources.items) = 0
    THEN Result(<<>>, IF fm.verbose THEN NoneFound(fm) ELSE <<>>, NoError)
    ELSE LET m == Mirror(fm, Render(headers, Rows(resources.items),
                                    Caption(fm, resources)))
         IN Rejecting(Result(m.out, <<>>, NoError), m.rejected)

----------------------------------------------------------------------------
(* Formatter.Format *)

\* Format matching the selector without regard to case
FormatResult_FoldCase(fm, resources, format, headers) ==
    CASE format \in {"json", "JSON"} -> formatJSON(fm, resources)
      [] format = "csv" -> formatCSV(fm, resources, headers)
      [] format \in {"table", "Table"} -> formatTable(fm, resources, headers)
      [] format = "id" -> formatID(fm, resources)
      [] OTHER -> Result(<<>>, <<>>, UnsupportedFormatError(format))

FormatResult(fm, resources, format, headers) ==
    CASE format = "json" -> formatJSON(fm, resources)
      [] format = "csv" -> formatCSV(fm, resources, headers)
      [] format = "table" -> formatTable(fm, resources, headers)
      [] format = "id" -> formatID(fm, resources)
      [] OTHER -> Result(<<>>, <<>>, UnsupportedFormatError(format))

\* Format remembering that it was called: the formatter is verbose after
Format_Latches(resources, format, headers) ==
    /\ pc = "ready"
    /\ LET r == FormatResult(f, resources, format, headers)
       IN /\ writer' = writer \o r.writer
          /\ stderr' = stderr \o r.stderr
          /\ err' = r.err
          /\ rejected' = r.rejected
    /\ args' = [resources |-> resources, format |-> format, headers |-> headers]
    /\ calls' = Append(calls, args')
    /\ pc' = "done"
    /\ f' = [f EXCEPT !.verbose = TRUE]
    /\ UNCHANGED fetchVars
    /\ UNCHANGED cmdVars

Format(resources, format, headers) ==
    /\ pc = "ready"
    /\ LET r == FormatResult(f, resources, format, headers)
       IN /\ writer' = writer \o r.writer
          /\ stderr' = stderr \o r.stderr
          /\ err' = r.err
          /\ rejected' = r.rejected
    /\ args' = [resources |-> resources, format |-> format, headers |-> headers]
    /\ calls' = Append(calls, args')
    /\ pc' = "done"
    /\ UNCHANGED f
    /\ UNCHANGED fetchVars
    /\ UNCHANGED cmdVars

----------------------------------------------------------------------------
(* The wire records of the Resource Manager API (resourcemanagerpb.Folder  *)
(* and resourcemanagerpb.Organization) and their conversion.               *)

\* A *timestamppb.Timestamp: nil, or the seconds since the Unix epoch.
NilTimestamp == [isNil |-> TRUE, seconds |-> 0]
Timestamp(seconds) == [isNil |-> FALSE, seconds |-> seconds]

\* A wire record: nil, or its fields; State is the number of the enum.
NilProto ==
    [isNil |-> TRUE, Name |-> <<>>, DisplayName |-> <<>>, Parent |-> <<>>,
     State |-> 0, CreateTime |-> NilTimestamp, UpdateTime |-> NilTimestamp]

Proto(name, display, parent, state, ct, ut) ==
    [isNil |-> FALSE, Name |-> Chars(name), DisplayName |-> Chars(display),
     Parent |-> Chars(parent), State |-> state,
     CreateTime |-> ct, UpdateTime |-> ut]

\* The generated getters, which answer the zero value for a nil record.
GetName(pb) == IF pb.isNil THEN <<>> ELSE pb.Name
GetDisplayNameOf(pb) == IF pb.isNil THEN <<>> ELSE pb.DisplayName
GetParent(pb) == IF pb.isNil THEN <<>> ELSE pb.Parent
GetState(pb) == IF pb.isNil THEN 0 ELSE pb.State
GetCreateTime(pb) == IF pb.isNil THEN NilTimestamp ELSE pb.CreateTime
GetUpdateTime(pb) == IF pb.isNil THEN NilTimestamp ELSE pb.UpdateTime

\* Folder_State.String() / Organization_State.String()
StateString(n) ==
    CASE n = 0 -> Chars("STATE_UNSPECIFIED")
      [] n = 1 -> Chars("ACTIVE")
      [] n = 2 -> Chars("DELETE_REQUESTED")

\* The civil date of a day counted from 1970-01-01.
CivilFromDays(days) ==
    LET z == days + 719468
        era == z \div 146097
        doe == z - era * 146097
        yoe == (doe - doe \div 1460 + doe \div 36524 - doe \div 146096) \div 365
        doy == doe - (365 * yoe + yoe \div 4 - yoe \div 100)
        mp == (5 * doy + 2) \div 153
        mo == IF mp < 10 THEN mp + 3 ELSE mp - 9
    IN [Y |-> yoe + era * 400 + (IF mo <= 2 THEN 1 ELSE 0), M |-> mo,
        D |-> doy - (153 * mp + 2) \div 5 + 1]

\* Timestamp.AsTime(): time.Unix(seconds, nanos).UTC()
AsTime(ts) ==
    LET date == CivilFromDays(ts.seconds \div 86400)
        rem == ts.seconds % 86400
    IN [Y |-> date.Y, M |-> date.M, D |-> date.D,
        h |-> rem \div 3600, m |-> (rem % 3600) \div 60, s |-> rem % 60]

\* A time field left at the epoch when the wire record has no timestamp
TimeField_Epoch(ts) == AsTime(ts)

\* if pb.GetCreateTime() != nil { folder.CreateTime = ...AsTime() }: the
\* field keeps time.Time's zero value when the timestamp is nil.
TimeField(ts) == IF ts.isNil THEN ZeroTime ELSE AsTime(ts)

RECURSIVE TrimPrefix_Repeated(_, _)
\* The prefix removed as often as the string starts with it
TrimPrefix_Repeated(s, prefix) ==
    IF prefix # <<>> /\ HasPrefix(s, prefix)
    THEN TrimPrefix_Repeated(SubSeq(s, Len(prefix) + 1, Len(s)), prefix)
    ELSE s

\* strings.TrimPrefix
TrimPrefix(s, prefix) ==
    IF HasPrefix(s, prefix) THEN SubSeq(s, Len(prefix) + 1, Len(s)) ELSE s

folderPrefix == Chars("folders/")
orgPrefix == Chars("organizations/")

\* A *Folder or *Organization a conversion returns: nil, or the new object.
NilPointer == [isNil |-> TRUE]
PointerTo(object) == [isNil |-> FALSE, object |-> object]

\* FolderFromProto
FolderFromProto(pb) ==
    PointerTo([kind |-> "folder",
               ID |-> TrimPrefix(GetName(pb), folderPrefix),
               Name |-> GetName(pb),
               DisplayName |-> GetDisplayNameOf(pb),
               Parent |-> GetParent(pb),
               State |-> StateString(GetState(pb)),
               CreateTime |-> TimeField(GetCreateTime(pb)),
               UpdateTime |-> TimeField(GetUpdateTime(pb))])

\* OrganizationFromProto; an Organization has no Parent.
OrganizationFromProto(pb) ==
    IF pb.isNil THEN NilPointer
    ELSE PointerTo([kind |-> "organization",
                    ID |-> TrimPrefix(GetName(pb), orgPrefix),
                    Name |-> GetName(pb),
                    DisplayName |-> GetDisplayNameOf(pb),
                    Parent |-> <<>>,
                    State |-> StateString(GetState(pb)),
                    CreateTime |-> TimeField(GetCreateTime(pb)),
                    UpdateTime |-> TimeField(GetUpdateTime(pb))])

FromProto(k, pb) ==
    IF k = "folder" THEN FolderFromProto(pb) ELSE OrganizationFromProto(pb)

----------------------------------------------------------------------------
(* The fetch: Client.searchAllAccessibleFolders (behind Client.ListFolders)*)
(* and Client.SearchOrganizations, and the adapters FoldersToResources and *)
(* OrganizationsToResources.  A pointer is the position of its object in   *)
(* heap, and 0 is the nil pointer.                                         *)

\* The records a search answers with; the same fields serve both kinds.
WireRecords ==
    { Proto("folders/12", "a,b", "organizations/7", 1,
            NilTimestamp, Timestamp(1685622605)),
      Proto("folders/folders/3", "q", "folders/12", 1,
            Timestamp(0), NilTimestamp),
      Proto("12", "", "", 0, Timestamp(951782400), Timestamp(1672531199)),
      Proto("organizations/7", "Org x", "", 2,
            Timestamp(1685622605), Timestamp(1685622605)),
      Proto("folders/", "f", "", 1, NilTimestamp, NilTimestamp),
      Proto("", "", "", 1, NilTimestamp, NilTimestamp) }

\* The most records one search yields.
MaxYield == 2

\* What it.Next() answers: the records in turn, then iterator.Done or
\* another error.
Iterators ==
    { [recs |-> r, end |-> e, pos |-> 0] :
        r \in UNION { [1..n -> WireRecords] : n \in 0..MaxYield },
        e \in {"Done", "Err", "Denied"} }

\* The errors of it.Next() that are not iterator.Done: one that carries no
\* gRPC status, and a gRPC status with the code PermissionDenied.
errIter == [wraps |-> "errIter", msg |-> Chars("rpc error")]
errDenied ==
    [wraps |-> "PermissionDenied",
     msg |-> Chars("rpc error: code = PermissionDenied desc = denied")]

IterError(end) == IF end = "Denied" THEN errDenied ELSE errIter

\* A *FetchOptions: nil, or its Parent.
NilOptions == [isNil |-> TRUE, Parent |-> <<>>]
Options(parent) == [isNil |-> FALSE, Parent |-> parent]

\* NewFetchOptions()
NewFetchOptions == Options(<<>>)

\* The query with the parent clause whether there is a parent or not
SearchQuery_AlwaysParent(o) ==
    Chars("state:ACTIVE") \o Chars(" AND parent:") \o o.Parent

\* req.Query of searchAllAccessibleFolders
SearchQuery(o) ==
    Chars("state:ACTIVE")
    \o (IF o.Parent # <<>> THEN Chars(" AND parent:") \o o.Parent
        ELSE <<>>)

\* Client.ListFolders / Client.SearchOrganizations called with options o:
\* nil options are replaced by NewFetchOptions(); the request of the
\* search is SearchFoldersRequest{Query: ...} for folders and the empty
\* SearchOrganizationsRequest{} for organizations; then
\* it := c.foldersClient.SearchFolders(ctx, req); var folders []*Folder
Search(k, iter, o) ==
    /\ fpc = "start"
    /\ client' = k
    /\ opts' = IF o.isNil THEN NewFetchOptions ELSE o
    /\ req' = [Query |-> IF k = "folder" THEN SearchQuery(opts') ELSE <<>>]
    /\ it' = iter
    /\ list' = NilSlice
    /\ fpc' = "loop"
    /\ UNCHANGED <<heap, ret, adapted, conv>>
    /\ UNCHANGED fmtVars

\* it.Next() answers a record: folders = append(folders, FolderFromProto(folder))
NextRecord ==
    /\ fpc = "loop" /\ it.pos < Len(it.recs)
    /\ LET p == FromProto(client, it.recs[it.pos + 1])
       IN /\ heap' = IF p.isNil THEN heap ELSE Append(heap, p.object)
          /\ list' = Slice(Append(list.items,
                                  IF p.isNil THEN 0 ELSE Len(heap) + 1))
    /\ it' = [it EXCEPT !.pos = @ + 1]
    /\ UNCHANGED <<client, opts, req, fpc, ret, adapted, conv>>
    /\ UNCHANGED fmtVars
    /\ UNCHANGED cmdVars

\* it.Next() answers iterator.Done: break; return folders, nil
NextDone ==
    /\ fpc = "loop" /\ it.pos = Len(it.recs) /\ it.end = "Done"
    /\ ret' = [list |-> list, err |-> NoError]
    /\ fpc' = "returned"
    /\ UNCHANGED <<heap, it, client, opts, req, list, adapted, conv>>
    /\ UNCHANGED fmtVars
    /\ UNCHANGED cmdVars

\* The fetch returning what it has read so far along with the error
NextError_KeepsItems ==
    /\ fpc = "loop" /\ it.pos = Len(it.recs) /\ it.end # "Done"
    /\ ret' = [list |-> list,
               err |-> WrapError(IF client = "folder"
                                 THEN "failed to iterate all folders"
                                 ELSE "failed to iterate organizations",
                                 IterError(it.end))]
    /\ fpc' = "returned"
    /\ UNCHANGED <<heap, it, client, opts, req, list, adapted, conv>>
    /\ UNCHANGED fmtVars
    /\ UNCHANGED cmdVars

\* it.Next() answers another error: return nil, fmt.Errorf("...: %w", err)
NextError ==
    /\ fpc = "loop" /\ it.pos = Len(it.recs) /\ it.end # "Done"
    /\ ret' = [list |-> NilSlice,
               err |-> WrapError(IF client = "folder"
                                 THEN "failed to iterate all folders"
                                 ELSE "failed to iterate organizations",
                                 IterError(it.end))]
    /\ fpc' = "returned"
    /\ UNCHANGED <<heap, it, client, opts, req, list, adapted, conv>>
    /\ UNCHANGED fmtVars
    /\ UNCHANGED cmdVars

\* FoldersToResources dropping the nil pointers of its input
FoldersToResources_SkipNil(folderList) ==
    LET kept == SelectSeq(folderList.items, LAMBDA p : p # 0)
    IN Slice([i \in 1..Len(kept) |-> [kind |-> "folder", ptr |-> kept[i]]])

\* resources := make([]Resource, len(folderList)); resources[i] = folder
FoldersToResources(folderList) ==
    Slice([i \in 1..Len(folderList.items) |->
              [kind |-> "folder", ptr |-> folderList.items[i]]])

\* OrganizationsToResources answering nil for a list that holds nothing
OrganizationsToResources_NilForEmpty(organizationList) ==
    IF Len(organizationList.items) = 0 THEN NilSlice
    ELSE Slice([i \in 1..Len(organizationList.items) |->
                  [kind |-> "organization", ptr |-> organizationList.items[i]]])

OrganizationsToResources(organizationList) ==
    Slice([i \in 1..Len(organizationList.items) |->
              [kind |-> "organization", ptr |-> organizationList.items[i]]])

\* The lists an adapter is called with: the list the fetch returned, or
\* any list of pointers to the objects there are, nil among them.
AdapterInputs ==
    {ret.list, NilSlice}
    \cup { Slice(l) : l \in UNION { [1..n -> 0..Len(heap)] : n \in 0..MaxYield } }

\* output.FoldersToResources(folderList) / OrganizationsToResources(...)
ToResources(in) ==
    /\ fpc = "returned" /\ ret.err = NoError
    /\ adapted' = [in |-> in,
                   out |-> IF client = "folder" THEN FoldersToResources(in)
                           ELSE OrganizationsToResources(in)]
    /\ fpc' = "adapted"
    /\ UNCHANGED <<heap, it, client, opts, req, list, ret, conv>>
    /\ UNCHANGED fmtVars
    /\ UNCHANGED cmdVars

\* A conversion called by itself, as the conversions' tests call it.
Convert(k, pb) ==
    /\ fpc = "start"
    /\ LET p == FromProto(k, pb)
       IN /\ heap' = IF p.isNil THEN heap ELSE Append(heap, p.object)
          /\ conv' = [pb |-> pb, ptr |-> IF p.isNil THEN 0 ELSE Len(heap) + 1]
    /\ client' = k
    /\ fpc' = "converted"
    /\ UNCHANGED <<opts, req, it, list, ret, adapted>>
    /\ UNCHANGED fmtVars
    /\ UNCHANGED cmdVars

\* No fetch and no conversion under way.
FetchIdle ==
    /\ heap = <<>>
    /\ client = "none"
    /\ opts = NilOptions
    /\ req = [Query |-> <<>>]
    /\ it = [recs |-> <<>>, end |-> "Done", pos |-> 0]
    /\ list = NilSlice
    /\ fpc = "start"
    /\ ret = [list |-> NilSlice, err |-> NoError]
    /\ adapted = [in |-> NilSlice, out |-> NilSlice]
    /\ conv = [pb |-> NilProto, ptr |-> 0]

\* No command is run.
CmdIdle ==
    /\ cmd = [name |-> "none", parentFolder |-> <<>>,
              parentOrganization |-> <<>>, format |-> "", verbose |-> FALSE]
    /\ cpc = "start"
    /\ events = <<>>
    /\ service = [created |-> FALSE, arg |-> NilOptions, fetcherCalls |-> 0,
                  ret |-> [list |-> NilSlice, err |-> NoError], closed |-> 0]
    /\ cret = NoError

\* A formatter that is not called.
FormatIdle ==
    /\ f = [verbose |-> FALSE, resourceType |-> "", fails |-> {}]
    /\ writer = <<>>
    /\ stderr = <<>>
    /\ pc = "ready"
    /\ args = [resources |-> NilSlice, format |-> "", headers |-> <<>>]
    /\ err = NoError
    /\ rejected = 0
    /\ calls = <<>>

\* The options a fetch is called with: a folder search takes the parent
\* to search under, an organization search takes none.
OptionsOf(k) ==
    IF k = "folder"
    THEN {NilOptions, NewFetchOptions, Options(Chars("folders/9")),
          Options(Chars("organizations/7"))}
    ELSE {NewFetchOptions}

InitFetch == FormatIdle /\ FetchIdle /\ CmdIdle

NextFetch ==
    \/ \E k \in {"folder", "organization"}, iter \in Iterators :
          \E o \in OptionsOf(k) : Search(k, iter, o) /\ UNCHANGED cmdVars
    \/ NextRecord
    \/ NextDone
    \/ NextError
    \/ \E in \in AdapterInputs : ToResources(in)
    \/ \E k \in {"folder", "organization"}, pb \in WireRecords \cup {NilProto} :
          Convert(k, pb)

SpecFetch == InitFetch /\ [][NextFetch]_vars

----------------------------------------------------------------------------
(* The commands: runFoldersCommand and runOrganizationsCommand, the        *)
(* Service they fetch through, their error handling and their output.      *)

ErrMutuallyExclusiveFlags ==
    [wraps |-> "ErrMutuallyExclusiveFlags",
     msg |-> Chars("cannot specify both --parent-folder and --parent-organization")]

\* The error of resourcemanager.NewFoldersClient / NewOrganizationsClient
\* when the credentials cannot be resolved.
errCreds == [wraps |-> "errCreds", msg |-> Chars("could not find default credentials")]

\* The error of the API client's Close.
errClose == [wraps |-> "errClose", msg |-> Chars("close failed")]

KindOf(name) ==
    IF name \in {"folders", "ListFolders", "OutputFolders"} THEN "folder"
    ELSE "organization"

\* status.FromError(err) finds a gRPC status in err or in what it wraps,
\* and its code is PermissionDenied.
IsPermissionDenied(e) == e.wraps = errDenied.wraps

\* HandleFoldersError replacing every error, whatever its status code
HandleFoldersError_Always(e, parent) ==
    [wraps |-> e.wraps,
     msg |-> Chars("permission denied: insufficient permissions to search folders.")
             \o <<NL>> \o Chars("Original error: ") \o e.msg]

\* HandleFoldersError
HandleFoldersError(e, parent) ==
    IF IsPermissionDenied(e)
    THEN IF parent = <<>>
         THEN [wraps |-> e.wraps,
               msg |-> Chars("permission denied: insufficient permissions to search folders.")
                       \o <<NL, NL>>
                       \o Chars("Ensure you have the required IAM permissions:")
                       \o <<NL>>
                       \o Chars("  - resourcemanager.folders.list (to access folders)")
                       \o <<NL>>
                       \o Chars("  - Or specify a parent with: gcphelper folders --parent-organization YOUR_ORG_ID")
                       \o <<NL, NL>>
                       \o Chars("Original error: ") \o e.msg]
         ELSE [wraps |-> e.wraps,
               msg |-> Chars("permission denied: insufficient permissions to list folders under parent ")
                       \o parent \o Chars(".")
                       \o <<NL, NL>>
                       \o Chars("Ensure you have the 'resourcemanager.folders.list' permission for this parent resource.")
                       \o <<NL, NL>>
                       \o Chars("Original error: ") \o e.msg]
    ELSE e

\* HandleOrganizationsError
HandleOrganizationsError(e) ==
    IF IsPermissionDenied(e)
    THEN [wraps |-> e.wraps,
          msg |-> Chars("permission denied: insufficient permissions to search organizations.")
                  \o <<NL, NL>>
                  \o Chars("Ensure you have the 'resourcemanager.organizations.get' permission.")
                  \o <<NL, NL>>
                  \o Chars("Original error: ") \o e.msg]
    ELSE e

\* opts := folders.NewFetchOptions() and the Parent the flags set
FlagOptions(c) ==
    IF c.parentFolder # <<>>
    THEN Options(Chars("folders/") \o c.parentFolder)
    ELSE IF c.parentOrganization # <<>>
    THEN Options(Chars("organizations/") \o c.parentOrganization)
    ELSE NewFetchOptions

\* The service handing on what the fetcher returned, error and all
ServiceResult_Unwrapped(k, r) == r

\* What Service.ListFolders / Service.SearchOrganizations returns for what
\* the fetcher returned.
ServiceResult(k, r) ==
    IF r.err # NoError
    THEN [list |-> NilSlice,
          err |-> WrapError(IF k = "folder" THEN "failed to list folders"
                            ELSE "failed to search organizations", r.err)]
    ELSE [list |-> r.list, err |-> NoError]

\* folders.NewServiceFromContextWithLogger(ctx, log), and the deferred
\* Close registered when it succeeds.
CreateService(ok) ==
    /\ cpc = "start" /\ cmd.name \in {"folders", "organizations"}
    /\ events' = Append(events, "NewService")
    /\ IF ok
       THEN /\ service' = [service EXCEPT !.created = TRUE]
            /\ cpc' = "created"
            /\ cret' = cret
       ELSE /\ service' = service
            /\ cpc' = "returned"
            /\ cret' = IF cmd.name = "folders"
                       THEN WrapError("failed to create folders service",
                              WrapError("failed to create folders client", errCreds))
                       ELSE WrapError("failed to create organizations service",
                              WrapError("failed to create organizations client", errCreds))
    /\ UNCHANGED cmd
    /\ UNCHANGED <<fmtVars, fetchVars>>

\* The flags never refused: the command goes on to the fetch
ValidateFlags_Ignored ==
    /\ cpc = "created" /\ cmd.name = "folders"
    /\ cret' = cret /\ cpc' = "validated"
    /\ UNCHANGED <<cmd, events, service>>
    /\ UNCHANGED <<fmtVars, fetchVars>>

\* The flag error returned without the service being closed
ValidateFlags_NoClose ==
    /\ cpc = "created" /\ cmd.name = "folders"
    /\ IF cmd.parentFolder # <<>> /\ cmd.parentOrganization # <<>>
       THEN cret' = ErrMutuallyExclusiveFlags /\ cpc' = "returned"
       ELSE cret' = cret /\ cpc' = "validated"
    /\ UNCHANGED <<cmd, events, service>>
    /\ UNCHANGED <<fmtVars, fetchVars>>

\* if parentFolder != "" && parentOrganization != "" { return ErrMutuallyExclusiveFlags }
ValidateFlags ==
    /\ cpc = "created" /\ cmd.name = "folders"
    /\ IF cmd.parentFolder # <<>> /\ cmd.parentOrganization # <<>>
       THEN cret' = ErrMutuallyExclusiveFlags /\ cpc' = "closing"
       ELSE cret' = cret /\ cpc' = "validated"
    /\ UNCHANGED <<cmd, events, service>>
    /\ UNCHANGED <<fmtVars, fetchVars>>

\* Service.ListFolders(ctx, arg) / Service.SearchOrganizations(ctx) up to
\* its call of the fetcher: nil options become NewFetchOptions(), and the
\* fetcher is called with them.
ServiceCall(k, arg, iter) ==
    /\ service' = [service EXCEPT !.arg = arg, !.fetcherCalls = @ + 1]
    /\ events' = Append(events, "Fetch")
    /\ Search(k, iter, IF arg.isNil THEN NewFetchOptions ELSE arg)

\* The command's call of service.ListFolders(ctx, opts) /
\* service.SearchOrganizations(ctx).
RunFetch(iter) ==
    /\ \/ cmd.name = "folders" /\ cpc = "validated"
       \/ cmd.name = "organizations" /\ cpc = "created"
    /\ ServiceCall(KindOf(cmd.name),
                   IF cmd.name = "folders" THEN FlagOptions(cmd)
                   ELSE NewFetchOptions, iter)
    /\ cpc' = "fetching"
    /\ UNCHANGED <<cmd, cret>>

\* Service.ListFolders called by itself, as the service's tests call it.
CallListFolders(arg, iter) ==
    /\ cmd.name = "ListFolders" /\ cpc = "start"
    /\ ServiceCall("folder", arg, iter)
    /\ cpc' = "fetching"
    /\ UNCHANGED <<cmd, cret>>

\* The fetcher has returned: the service returns.
ServiceReturn ==
    /\ cpc = "fetching" /\ fpc = "returned"
    /\ service' = [service EXCEPT !.ret = ServiceResult(client, ret)]
    /\ cpc' = IF cmd.name = "ListFolders" THEN "returned" ELSE "fetched"
    /\ UNCHANGED <<cmd, events, cret>>
    /\ UNCHANGED <<fmtVars, fetchVars>>

\* if err != nil { return HandleFoldersError(err, opts.Parent) }
HandleError ==
    /\ cpc = "fetched" /\ service.ret.err # NoError
    /\ cret' = IF cmd.name = "folders"
               THEN HandleFoldersError(service.ret.err, FlagOptions(cmd).Parent)
               ELSE HandleOrganizationsError(service.ret.err)
    /\ cpc' = "closing"
    /\ UNCHANGED <<cmd, events, service>>
    /\ UNCHANGED <<fmtVars, fetchVars>>

\* The resources behind the pointers of an adapted list.
Deref(l) == Slice([i \in 1..Len(l.items) |-> heap[l.items[i].ptr]])

\* OutputFolders(l, format, verbose) / OutputOrganizations(l, format,
\* verbose): a formatter over os.Stdout under the kind's label, the
\* adapter, the kind's headers, Format, and the error wrapped.
Output(k, l, format, verbose) ==
    /\ f' = [verbose |-> verbose,
             resourceType |-> IF k = "folder" THEN "folders" ELSE "organizations",
             fails |-> {}]
    /\ adapted' = [in |-> l,
                   out |-> IF k = "folder" THEN FoldersToResources(l)
                           ELSE OrganizationsToResources(l)]
    /\ args' = [resources |-> Deref(adapted'.out), format |-> format,
                headers |-> IF k = "folder" THEN FolderHeaders
                            ELSE OrganizationHeaders]
    /\ LET r == FormatResult(f', args'.resources, format, args'.headers)
       IN /\ writer' = writer \o r.writer
          /\ stderr' = stderr \o r.stderr
          /\ err' = r.err
          /\ rejected' = r.rejected
          /\ cret' = IF r.err = NoError THEN NoError
                     ELSE WrapError(IF k = "folder"
                                    THEN "failed to format folders output"
                                    ELSE "failed to format organizations output",
                                    r.err)
    /\ calls' = Append(calls, args')
    /\ pc' = "done"
    /\ events' = Append(events, "Format")
    /\ UNCHANGED <<heap, client, opts, req, it, list, fpc, ret, conv>>

\* return OutputFolders(folderList, format, verbose)
RunOutput ==
    /\ cpc = "fetched" /\ service.ret.err = NoError
    /\ Output(KindOf(cmd.name), service.ret.list, cmd.format, cmd.verbose)
    /\ cpc' = "closing"
    /\ UNCHANGED <<cmd, service>>

\* OutputFolders / OutputOrganizations called by itself with a list that
\* holds nothing.
CallOutput(l) ==
    /\ cmd.name \in {"OutputFolders", "OutputOrganizations"} /\ cpc = "start"
    /\ Output(KindOf(cmd.name), l, cmd.format, cmd.verbose)
    /\ cpc' = "returned"
    /\ UNCHANGED <<cmd, service>>

\* The deferred service.Close(), run as the command returns; its error is
\* only reported on os.Stderr.
Close(ok) ==
    /\ cpc = "closing"
    /\ service' = [service EXCEPT !.closed = @ + 1]
    /\ events' = Append(events, "Close")
    /\ stderr' = stderr \o
         (IF ok THEN <<>>
          ELSE Chars("Warning: failed to close service: ")
               \o WrapError("failed to close service fetcher",
                    WrapError(IF cmd.name = "folders"
                              THEN "failed to close folders client"
                              ELSE "failed to close organizations client",
                              errClose)).msg
               \o <<NL>>)
    /\ cpc' = "returned"
    /\ UNCHANGED <<cmd, cret>>
    /\ UNCHANGED <<f, writer, pc, args, err, rejected, calls>>
    /\ UNCHANGED fetchVars

\* The most records a search yields to a command.
MaxCmdYield == 2

\* The iterators of the searches the commands make.
CmdIterators ==
    { [recs |-> r, end |-> e, pos |-> 0] :
        r \in UNION { [1..n -> { w \in WireRecords :
                                   w.Name \in {Chars("folders/12"),
                                               Chars("folders/folders/3")} }] :
                      n \in 0..MaxCmdYield },
        e \in {"Done", "Err", "Denied"} }

CmdFormats == {"table", "json", "csv", "id", "xml"}

\* What is run, with its flags and the global --format and --verbose.
CmdInputs ==
    { [name |-> "folders", parentFolder |-> pf, parentOrganization |-> po,
       format |-> fo, verbose |-> v] :
        pf \in {<<>>, Chars("9")}, po \in {<<>>, Chars("7")},
        fo \in CmdFormats, v \in BOOLEAN }
    \cup { [name |-> n, parentFolder |-> <<>>, parentOrganization |-> <<>>,
            format |-> fo, verbose |-> v] :
             n \in {"organizations", "OutputFolders", "OutputOrganizations"},
             fo \in CmdFormats, v \in BOOLEAN }
    \cup { [name |-> "ListFolders", parentFolder |-> <<>>,
            parentOrganization |-> <<>>, format |-> "", verbose |-> FALSE] }

InitCmd ==
    /\ FormatIdle
    /\ FetchIdle
    /\ cmd \in CmdInputs
    /\ cpc = "start"
    /\ events = <<>>
    /\ service = [created |-> FALSE, arg |-> NilOptions, fetcherCalls |-> 0,
                  ret |-> [list |-> NilSlice, err |-> NoError], closed |-> 0]
    /\ cret = NoError

NextCmd ==
    \/ \E ok \in BOOLEAN : CreateService(ok)
    \/ ValidateFlags
    \/ \E iter \in CmdIterators : RunFetch(iter)
    \/ \E arg \in OptionsOf("folder"), iter \in CmdIterators :
          CallListFolders(arg, iter)
    \/ NextRecord
    \/ NextDone
    \/ NextError
    \/ ServiceReturn
    \/ HandleError
    \/ RunOutput
    \/ \E l \in {NilSlice, Slice(<<>>)} : CallOutput(l)
    \/ \E ok \in BOOLEAN : Close(ok)

SpecCmd == InitCmd /\ [][NextCmd]_vars

----------------------------------------------------------------------------

(* The formatter's specifications *)

\* NewFormatterWithType(writer, verbose, resourceType), with an empty sink
\* that accepts every Write call (a bytes.Buffer).
Init ==
    /\ f \in [verbose : BOOLEAN, resourceType : ResourceTypes, fails : {{}}]
    /\ writer = <<>>
    /\ stderr = <<>>
    /\ pc = "ready"
    /\ args = [resources |-> NilSlice, format |-> "", headers |-> <<>>]
    /\ err = NoError
    /\ rejected = 0
    /\ calls = <<>>
    /\ FetchIdle
    /\ CmdIdle

Next == \E in \in CallInputs, format \in Selectors : Format(in[1], format, in[2])

Spec == Init /\ [][Next]_vars

\* The Write calls of one Format call that a sink may reject.
MaxWrites == 2

\* NewFormatterWithType over a sink that rejects some of its Write calls.
InitW ==
    /\ f \in [verbose : BOOLEAN, resourceType : ResourceTypes,
              fails : SUBSET (1..MaxWrites)]
    /\ writer = <<>>
    /\ stderr = <<>>
    /\ pc = "ready"
    /\ args = [resources |-> NilSlice, format |-> "", headers |-> <<>>]
    /\ err = NoError
    /\ rejected = 0
    /\ calls = <<>>
    /\ FetchIdle
    /\ CmdIdle

SpecW == InitW /\ [][Next]_vars

----------------------------------------------------------------------------
(* One formatter called several times *)

\* The most Format calls made on one formatter.
MaxCalls == 2

\* The calls made on a formatter that is called again.
SeqInputs ==
    { <<NilSlice, FolderHeaders>>,
      <<Slice(<<CHOOSE r \in Folders : r.ID = Chars("12")>>), FolderHeaders>>,
      <<Slice(<<CHOOSE r \in Organizations : r.ID = Chars("7"),
                CHOOSE r \in Organizations : r.ID = Chars("45")>>),
        OrganizationHeaders>> }

SeqSelectors == {"table", "json", "csv", "id", "xml"}

\* The caller, after a Format call has returned, about to call again.
Again ==
    /\ pc = "done" /\ Len(calls) < MaxCalls
    /\ pc' = "ready"
    /\ UNCHANGED <<f, writer, stderr, args, err, rejected, calls>>
    /\ UNCHANGED fetchVars
    /\ UNCHANGED cmdVars

InitSeq ==
    /\ f \in [verbose : BOOLEAN, resourceType : {"", "folders"}, fails : {{}}]
    /\ writer = <<>>
    /\ stderr = <<>>
    /\ pc = "ready"
    /\ args = [resources |-> NilSlice, format |-> "", headers |-> <<>>]
    /\ err = NoError
    /\ rejected = 0
    /\ calls = <<>>
    /\ FetchIdle
    /\ CmdIdle

NextSeq ==
    \/ \E in \in SeqInputs, format \in SeqSelectors : Format(in[1], format, in[2])
    \/ Again

SpecSeq == InitSeq /\ [][NextSeq]_vars

----------------------------------------------------------------------------

(* encoding/json's decoding (json.Unmarshal into []interface{}), for the   *)
(* documents the encoder produces here: null, or an array whose elements   *)
(* are null or objects with string members.                                *)

At(s, i) == IF i >= 1 /\ i <= Len(s) THEN s[i] ELSE ""

ParseFail == [ok |-> FALSE, val |-> <<>>, next |-> 0]
Parsed(v, n) == [ok |-> TRUE, val |-> v, next |-> n]

RECURSIVE SkipWS(_, _)
SkipWS(s, i) == IF At(s, i) \in {" ", NL} THEN SkipWS(s, i + 1) ELSE i

RECURSIVE ParseStringBody(_, _, _)
\* The characters of a string literal after its opening quote
ParseStringBody(s, i, acc) ==
    CASE At(s, i) = QUOTE -> Parsed(acc, i + 1)
      [] At(s, i) = BACKSLASH ->
           IF At(s, i + 1) \in {QUOTE, BACKSLASH}
           THEN ParseStringBody(s, i + 2, Append(acc, At(s, i + 1)))
           ELSE IF At(s, i + 1) = "n"
           THEN ParseStringBody(s, i + 2, Append(acc, NL))
           ELSE ParseFail
      [] At(s, i) \in {"", NL} -> ParseFail
      [] OTHER -> ParseStringBody(s, i + 1, Append(acc, At(s, i)))

ParseString(s, i) ==
    IF At(s, i) = QUOTE THEN ParseStringBody(s, i + 1, <<>>) ELSE ParseFail

RECURSIVE ParseMembers(_, _, _)
\* The members of an object from the key at i on: <<key, value>> pairs
ParseMembers(s, i, acc) ==
    LET k == ParseString(s, i)
        c == SkipWS(s, k.next)
        v == ParseString(s, SkipWS(s, c + 1))
        e == SkipWS(s, v.next)
        members == Append(acc, <<k.val, v.val>>)
    IN IF ~k.ok \/ At(s, c) # ":" THEN ParseFail
       ELSE IF ~v.ok THEN ParseFail
       ELSE IF At(s, e) = "," THEN ParseMembers(s, SkipWS(s, e + 1), members)
       ELSE IF At(s, e) = "}" THEN Parsed(members, e + 1)
       ELSE ParseFail

JSONNull == <<"null">>

\* One array element: an object (its members) or null
ParseElement(s, i) ==
    IF At(s, i) = "{"
    THEN LET j == SkipWS(s, i + 1)
         IN IF At(s, j) = "}" THEN Parsed(<<>>, j + 1)
            ELSE ParseMembers(s, j, <<>>)
    ELSE IF SubSeq(s, i, i + 3) = Chars("null") THEN Parsed(JSONNull, i + 4)
    ELSE ParseFail

RECURSIVE ParseElements(_, _, _)
ParseElements(s, i, acc) ==
    LET el == ParseElement(s, i)
        e == SkipWS(s, el.next)
    IN IF ~el.ok THEN ParseFail
       ELSE IF At(s, e) = ","
       THEN ParseElements(s, SkipWS(s, e + 1), Append(acc, el.val))
       ELSE IF At(s, e) = "]" THEN Parsed(Append(acc, el.val), e + 1)
       ELSE ParseFail

\* The decoded document: [ok, isArray, val], val the elements of the array
DecodeJSON(s) ==
    LET i == SkipWS(s, 1)
        arr == IF At(s, SkipWS(s, i + 1)) = "]"
               THEN Parsed(<<>>, SkipWS(s, i + 1) + 1)
               ELSE ParseElements(s, SkipWS(s, i + 1), <<>>)
    IN IF At(s, i) = "["
       THEN [ok |-> arr.ok /\ SkipWS(s, arr.next) = Len(s) + 1,
             isArray |-> TRUE, val |-> arr.val]
       ELSE [ok |-> SubSeq(s, i, i + 3) = Chars("null")
                    /\ SkipWS(s, i + 4) = Len(s) + 1,
             isArray |-> FALSE, val |-> <<>>]

\* The value of the member named key in a decoded object
HasMember(obj, key) ==
    obj # JSONNull /\ \E m \in 1..Len(obj) : obj[m][1] = Chars(key)

Member(obj, key) == obj[CHOOSE m \in 1..Len(obj) : obj[m][1] = Chars(key)][2]

----------------------------------------------------------------------------
(* Reading the output back: lines, RFC 4180 records, table rows *)

FirstIndex(s, c) == CHOOSE i \in 1..Len(s) : s[i] = c /\ \A j \in 1..(i - 1) : s[j] # c

RECURSIVE SplitOn(_, _)
\* strings.Split(s, c) for a one-character c
SplitOn(s, c) ==
    IF \A i \in 1..Len(s) : s[i] # c THEN <<s>>
    ELSE LET i == FirstIndex(s, c)
         IN <<SubSeq(s, 1, i - 1)>> \o SplitOn(SubSeq(s, i + 1, Len(s)), c)

\* The lines of a newline-terminated text; a text whose last line is not
\* terminated has that line as its last element too.
Lines(s) ==
    LET parts == SplitOn(s, NL)
    IN IF parts[Len(parts)] = <<>> THEN SubSeq(parts, 1, Len(parts) - 1)
       ELSE parts

RECURSIVE ParseQuotedField(_, _, _)
\* RFC 4180, an escaped field after its opening quote: "" is one quote,
\* a single quote ends the field and a separator or the end must follow.
ParseQuotedField(s, i, acc) ==
    CASE At(s, i) = "" -> ParseFail
      [] At(s, i) = QUOTE /\ At(s, i + 1) = QUOTE ->
           ParseQuotedField(s, i + 2, Append(acc, QUOTE))
      [] At(s, i) = QUOTE ->
           IF At(s, i + 1) \in {",", NL, ""} THEN Parsed(acc, i + 1)
           ELSE ParseFail
      [] OTHER -> ParseQuotedField(s, i + 1, Append(acc, At(s, i)))

RECURSIVE ParsePlainField(_, _, _)
\* RFC 4180, a non-escaped field: up to the separator, no quote in it
ParsePlainField(s, i, acc) ==
    CASE At(s, i) \in {",", NL, ""} -> Parsed(acc, i)
      [] At(s, i) = QUOTE -> ParseFail
      [] OTHER -> ParsePlainField(s, i + 1, Append(acc, At(s, i)))

ParseField(s, i) ==
    IF At(s, i) = QUOTE THEN ParseQuotedField(s, i + 1, <<>>)
    ELSE ParsePlainField(s, i, <<>>)

RECURSIVE ParseRecord(_, _, _)
ParseRecord(s, i, acc) ==
    LET fld == ParseField(s, i)
    IN IF ~fld.ok THEN ParseFail
       ELSE IF At(s, fld.next) = ","
       THEN ParseRecord(s, fld.next + 1, Append(acc, fld.val))
       ELSE Parsed(Append(acc, fld.val), fld.next)

RECURSIVE ParseRecords(_, _, _)
ParseRecords(s, i, acc) ==
    LET rec == ParseRecord(s, i, <<>>)
    IN IF i > Len(s) THEN Parsed(acc, i)
       ELSE IF ~rec.ok THEN ParseFail
       ELSE ParseRecords(s, rec.next + 1, Append(acc, rec.val))

\* An RFC 4180 reader: the records of s, each a sequence of field values
ParseCSV(s) == ParseRecords(s, 1, <<>>)

RECURSIVE TrimRight(_)
TrimRight(s) ==
    IF s # <<>> /\ s[Len(s)] = " " THEN TrimRight(SubSeq(s, 1, Len(s) - 1))
    ELSE s

\* The cells of a table line | a | b |: the text between the bars without
\* the padding space before it and the padding after it.
TableCells(line) ==
    LET parts == SplitOn(line, "|")
    IN [c \in 1..(Len(parts) - 2) |-> TrimRight(Tail(parts[c + 1]))]

IsBorder(line) == line # <<>> /\ \A i \in 1..Len(line) : line[i] \in {"+", "-"}

NeedsQuoting(v) == ContainsAny(v, {",", QUOTE, NL})

----------------------------------------------------------------------------
(* Properties of one Format call *)

Done == pc = "done"

Items == args.resources.items

\* The label the diagnostics name: the formatter's, "resources" when empty
Label == IF f.resourceType = "" THEN "resources" ELSE f.resourceType

\* C1: Format with a selector that is not exactly "table", "json", "csv"
\* or "id" (the empty string and other cases included) returns an error
\* that wraps ErrUnsupportedOutputFormat and contains the selector, and
\* writes nothing to the data sink and nothing to the diagnostic stream.
C1_UnsupportedFormatRejected ==
    (Done /\ args.format \notin {"table", "json", "csv", "id"}) =>
        /\ err.wraps = "ErrUnsupportedOutputFormat"
        /\ Contains(err.msg, Chars(args.format))
        /\ writer = <<>>
        /\ stderr = <<>>

C1_Witness ==
    /\ Done /\ args.format = "JSON" /\ Len(Items) > 0 /\ f.verbose
    /\ err.wraps = "ErrUnsupportedOutputFormat"

\* C3: Format with "id" and a non-empty list writes to the data sink each
\* resource's GetID() followed by one newline, in input order and nothing
\* else, and writes nothing to the diagnostic stream, verbose or not.
C3_IDLinesInOrder ==
    (Done /\ args.format = "id" /\ Len(Items) > 0) =>
        /\ writer = Concat([i \in 1..Len(Items) |-> GetID(Items[i]) \o <<NL>>])
        /\ stderr = <<>>
        /\ err = NoError

C3_Witness ==
    /\ Done /\ args.format = "id" /\ Len(Items) = 2 /\ f.verbose
    /\ GetID(Items[1]) # GetID(Items[2])
    /\ writer # <<>>

\* C4 as stated: an empty list in "table" or "id" writes nothing to the
\* data sink; not verbose, nothing to the diagnostic stream either;
\* verbose, exactly the line "No {type} found." and a newline with {type}
\* the formatter's resource-type label; and Format succeeds.
C4_EmptyListNoticeNamesLabel ==
    (Done /\ args.format \in {"table", "id"} /\ Len(Items) = 0) =>
        /\ writer = <<>>
        /\ err = NoError
        /\ stderr = IF f.verbose
                    THEN Chars("No ") \o Chars(f.resourceType)
                         \o Chars(" found.") \o <<NL>>
                    ELSE <<>>

\* C4 amended: the same, with {type} the formatter's resource-type label,
\* or "resources" when that label is empty.
C4_EmptyListNotice ==
    (Done /\ args.format \in {"table", "id"} /\ Len(Items) = 0) =>
        /\ writer = <<>>
        /\ err = NoError
        /\ stderr = IF f.verbose
                    THEN Chars("No ") \o Chars(Label) \o Chars(" found.")
                         \o <<NL>>
                    ELSE <<>>

C4_Witness ==
    /\ Done /\ args.format = "table" /\ Len(Items) = 0 /\ f.verbose
    /\ f.resourceType = ""
    /\ stderr = Chars("No resources found.") \o <<NL>>

\* The decoded output is an array with one element per input resource,
\* the i-th carrying the i-th resource's GetID() as its id member.
RoundTripsIDs ==
    LET d == DecodeJSON(writer)
    IN /\ d.ok /\ d.isArray
       /\ Len(d.val) = Len(Items)
       /\ \A i \in 1..Len(Items) :
             /\ HasMember(d.val[i], "id")
             /\ Member(d.val[i], "id") = GetID(Items[i])

\* C5 as stated: for any non-empty list of resources formatted as "json",
\* decoding the data sink yields an array as long as the input whose i-th
\* element has an id member equal to the i-th resource's GetID().
C5_JSONRoundTripAnyResource ==
    (Done /\ args.format = "json" /\ Len(Items) > 0) => RoundTripsIDs

\* C5 amended: the same for any non-empty list of Folder and Organization
\* values; a resource type without an exported field tagged id (the test
\* double mockResource) is encoded without an id member.
C5_JSONRoundTrip ==
    (/\ Done /\ args.format = "json" /\ Len(Items) > 0
     /\ \A i \in 1..Len(Items) : Items[i].kind \in {"folder", "organization"})
    => RoundTripsIDs

C5_Witness ==
    /\ Done /\ args.format = "json" /\ Len(Items) = 2
    /\ Items[1].kind = "folder" /\ Items[1].DisplayName = Chars("q\"t")
    /\ GetID(Items[2]) = Chars("12")
    /\ RoundTripsIDs

\* C6: Format with "json" and an empty list, a nil slice or an allocated
\* one of length zero, writes the empty array [] to the data sink and
\* succeeds, verbose or not.
C6_EmptyJSONIsEmptyArray ==
    (Done /\ args.format = "json" /\ Len(Items) = 0) =>
        /\ writer \in {Chars("[]"), Chars("[]") \o <<NL>>}
        /\ err = NoError

\* C2 as stated: the "No {type} found." line and the "Total {type}: {n}"
\* caption are written only to the diagnostic stream and never to the
\* data sink, and the data only to the data sink.
C2_DiagnosticsOnlyOnStderr ==
    Done =>
        /\ ~Contains(writer, Chars(" found."))
        /\ ~Contains(writer, Chars("Total "))
        /\ stderr \in {<<>>, Chars("No ") \o Chars(Label) \o Chars(" found.")
                             \o <<NL>>}

\* C2 amended: the "No {type} found." line is written only to the
\* diagnostic stream and never to the data sink, and the data only to the
\* data sink, after which the diagnostic stream holds that one line or
\* nothing; the "Total {type}: {n}" caption of a verbose table is written
\* to the data sink, as the last line of the table, and never to the
\* diagnostic stream.
C2_StreamSeparation ==
    Done =>
        /\ ~Contains(writer, Chars(" found."))
        /\ stderr \in {<<>>, Chars("No ") \o Chars(Label) \o Chars(" found.")
                             \o <<NL>>}
        /\ stderr # <<>> => writer = <<>>
        /\ (args.format = "table" /\ f.verbose /\ Len(Items) > 0) =>
              LET ls == Lines(writer)
              IN ls[Len(ls)] = Chars("Total ") \o Chars(Label) \o Chars(": ")
                               \o Itoa(Len(Items))

C2_Witness ==
    /\ Done /\ args.format = "table" /\ f.verbose /\ Len(Items) = 2
    /\ f.resourceType = "folders"
    /\ Contains(writer, Chars("Total folders: 2"))
    /\ stderr = <<>>

\* The line of the CSV output for row values vs: the values joined by commas
PlainLine(vs) == Join(vs, <<",">>)

C8_CSVEmptyIsHeaderOnly ==
    (Done /\ args.format = "csv" /\ Len(Items) = 0) =>
        /\ writer = PlainLine(args.headers) \o <<NL>>
        /\ Len(Lines(writer)) = 1
        /\ stderr = <<>>
        /\ err = NoError

C8_Witness ==
    /\ Done /\ args.format = "csv" /\ Len(Items) = 0 /\ f.verbose
    /\ args.headers = FolderHeaders
    /\ writer = Chars("ID,Display Name,Parent,State,Create Time,Update Time")
                \o <<NL>>

\* C9: in "csv" output every field that holds a comma, a double quote or a
\* newline is enclosed in double quotes with each double quote in it
\* doubled, and nothing else is changed, so that an RFC 4180 reader
\* recovers the header and every row projection.
C9_CSVReadsBack ==
    (Done /\ args.format = "csv") =>
        LET p == ParseCSV(writer)
        IN /\ p.ok
           /\ p.val = <<args.headers>> \o Rows(Items)

\* C10: "table" with a non-empty list writes a table whose header row is
\* headers, in order, in upper case, and whose body has one row per
\* resource, in input order, each the resource's row projection.
C10_TableRows ==
    (Done /\ args.format = "table" /\ Len(Items) > 0) =>
        LET ls == Lines(writer)
            n == Len(Items)
        IN /\ Len(ls) = n + 4 + (IF f.verbose THEN 1 ELSE 0)
           /\ IsBorder(ls[1]) /\ IsBorder(ls[3]) /\ IsBorder(ls[n + 4])
           /\ TableCells(ls[2]) = [c \in 1..Len(args.headers) |->
                                      ToUpper(args.headers[c])]
           /\ \A i \in 1..n : TableCells(ls[3 + i]) = TableRow(Items[i])

C10_Witness ==
    /\ Done /\ args.format = "table" /\ Len(Items) = 2 /\ ~f.verbose
    /\ Items[1].kind = "folder" /\ Items[1] # Items[2]
    /\ TableCells(Lines(writer)[2])[2] = Chars("DISPLAY NAME")

----------------------------------------------------------------------------
(* Caption of the table *)

LastLine(s) == Lines(s)[Len(Lines(s))]

CaptionLines(s) == { i \in 1..Len(Lines(s)) : HasPrefix(Lines(s)[i], Chars("Total ")) }

\* C11 as stated: "table" with a non-empty list ends with the caption line
\* "Total {type}: {n}" exactly when the formatter is verbose, {n} the
\* number of resources and {type} the formatter's resource-type label.
C11_CaptionNamesLabelAsIs ==
    (Done /\ args.format = "table" /\ Len(Items) > 0) =>
        IF f.verbose
        THEN /\ LastLine(writer) = Chars("Total ") \o Chars(f.resourceType)
                                   \o Chars(": ") \o Itoa(Len(Items))
             /\ CaptionLines(writer) = {Len(Lines(writer))}
        ELSE CaptionLines(writer) = {}

\* C11 amended: "table" with a non-empty list ends with the caption line
\* "Total {type}: {n}", after the closing border of the table, exactly
\* when the formatter is verbose; {n} is the number of resources and
\* {type} the formatter's resource-type label, or "resources" when that
\* label is empty; with verbose=false no caption line is written.
C11_CaptionAfterTable ==
    (Done /\ args.format = "table" /\ Len(Items) > 0) =>
        LET ls == Lines(writer)
        IN IF f.verbose
           THEN /\ ls[Len(ls)] = Chars("Total ") \o Chars(Label)
                                 \o Chars(": ") \o Itoa(Len(Items))
                /\ IsBorder(ls[Len(ls) - 1])
                /\ CaptionLines(writer) = {Len(ls)}
           ELSE /\ CaptionLines(writer) = {}
                /\ IsBorder(ls[Len(ls)])

C11_Witness ==
    /\ Done /\ args.format = "table" /\ Len(Items) = 2 /\ f.verbose
    /\ f.resourceType = "organizations"
    /\ LastLine(writer) = Chars("Total organizations: 2")

----------------------------------------------------------------------------
(* Row projection against the header lists *)

\* The text of an instant in a row, written out for the two instants of
\* the resources above.
TimeText(t) ==
    IF t = ZeroTime THEN Chars("0001-01-01 00:00:00")
    ELSE Chars("2023-06-01 12:30:05")

\* The value of resource r that belongs under a column title.
Field(r, title) ==
    CASE title = Chars("ID") -> r.ID
      [] title = Chars("Display Name") -> r.DisplayName
      [] title = Chars("Parent") -> r.Parent
      [] title = Chars("State") -> r.State
      [] title = Chars("Create Time") -> TimeText(r.CreateTime)
      [] title = Chars("Update Time") -> TimeText(r.UpdateTime)

HeadersOf(r) == IF r.kind = "folder" THEN FolderHeaders ELSE OrganizationHeaders

\* C17: the row of a folder is (ID, DisplayName, Parent, State, create
\* time, update time) and the row of an organization (ID, DisplayName,
\* State, create time, update time), position by position the value under
\* the title of FolderHeaders / OrganizationHeaders, and so it stands in
\* the rendered table; a zero CreateTime or UpdateTime is rendered
\* "0001-01-01 00:00:00".
C17_RowMatchesHeaders ==
    (Done /\ args.format = "table") =>
        \A i \in 1..Len(Items) :
            LET r == Items[i]
                row == TableRow(r)
                cells == TableCells(Lines(writer)[3 + i])
            IN r.kind \in {"folder", "organization"} =>
                 /\ Len(row) = Len(HeadersOf(r))
                 /\ Len(row) = IF r.kind = "folder" THEN 6 ELSE 5
                 /\ \A c \in 1..Len(row) :
                       /\ row[c] = Field(r, HeadersOf(r)[c])
                       /\ cells[c] = row[c]
                 /\ r.CreateTime = ZeroTime =>
                       row[Len(row) - 1] = Chars("0001-01-01 00:00:00")
                 /\ r.UpdateTime = ZeroTime =>
                       row[Len(row)] = Chars("0001-01-01 00:00:00")

C17_Witness ==
    /\ Done /\ args.format = "table" /\ Len(Items) = 2
    /\ Items[1].kind = "folder" /\ Items[1].CreateTime = ZeroTime
    /\ Items[2].kind = "folder" /\ Items[2].CreateTime # ZeroTime
    /\ TableCells(Lines(writer)[4])[5] = Chars("0001-01-01 00:00:00")
    /\ TableCells(Lines(writer)[5])[3] = Chars("folders/12")

----------------------------------------------------------------------------
(* Keys of the JSON objects *)

Keys(obj) == { obj[m][1] : m \in 1..Len(obj) }

OrganizationKeys ==
    { Chars("id"), Chars("name"), Chars("display_name"), Chars("state"),
      Chars("create_time"), Chars("update_time") }

FolderKeys == OrganizationKeys \cup { Chars("parent") }

\* C18: in "json" output the element of an organization is an object with
\* exactly the keys id, name, display_name, state, create_time and
\* update_time, each once, and the element of a folder has exactly these
\* and parent; the resource-type label is no key of any element, and the
\* output is the same under every label.
C18_JSONKeySets ==
    (/\ Done /\ args.format = "json" /\ Len(Items) > 0
     /\ \A i \in 1..Len(Items) : Items[i].kind \in {"folder", "organization"})
    => LET d == DecodeJSON(writer)
       IN /\ d.ok /\ d.isArray /\ Len(d.val) = Len(Items)
          /\ \A i \in 1..Len(Items) :
                /\ Keys(d.val[i]) = IF Items[i].kind = "folder"
                                    THEN FolderKeys ELSE OrganizationKeys
                /\ Len(d.val[i]) = Cardinality(Keys(d.val[i]))
                /\ Chars(f.resourceType) \notin Keys(d.val[i])
          /\ \A t \in ResourceTypes :
                writer = FormatResult([f EXCEPT !.resourceType = t],
                                      args.resources, "json",
                                      args.headers).writer

C18_Witness ==
    /\ Done /\ args.format = "json" /\ Len(Items) = 2
    /\ Items[1].kind = "organization" /\ Items[1] # Items[2]
    /\ f.resourceType = "organizations"
    /\ Keys(DecodeJSON(writer).val[1]) = OrganizationKeys
    /\ Chars("parent") \notin Keys(DecodeJSON(writer).val[2])

----------------------------------------------------------------------------
(* Verbosity and the structured formats *)

\* What the same call writes and returns with the other verbosity.
OtherVerbosity ==
    FormatResult([f EXCEPT !.verbose = ~f.verbose],
                 args.resources, args.format, args.headers)

\* C20: in "json" and in "csv" the bytes written to the data sink and to
\* the diagnostic stream, and the result, are the same with verbose=true
\* and verbose=false; in "id" the data sink and the result are the same,
\* and the diagnostic stream differs only for an empty list, where the
\* verbose call alone writes its notice.
C20_VerbosityNoninterference ==
    (Done /\ args.format \in {"json", "csv", "id"}) =>
        LET o == OtherVerbosity
        IN /\ writer = o.writer
           /\ err = o.err
           /\ (args.format \in {"json", "csv"} \/ Len(Items) > 0)
                 => stderr = o.stderr /\ stderr = <<>>
           /\ (args.format = "id" /\ Len(Items) = 0)
                 => /\ stderr = (IF f.verbose THEN NoneFound(f) ELSE <<>>)
                    /\ o.stderr = (IF f.verbose THEN <<>> ELSE NoneFound(f))

C20_Witness ==
    /\ Done /\ args.format = "json" /\ f.verbose /\ Len(Items) = 0
    /\ writer # <<>> /\ writer = OtherVerbosity.writer
    /\ stderr = <<>>

----------------------------------------------------------------------------
(* Rejected writes *)

\* The stage a format names in the error it wraps a write failure in.
StageOf(format) ==
    CASE format = "json" -> Chars("failed to encode JSON")
      [] format = "table" -> Chars("failed to render table")
      [] format = "csv" -> Chars("failed to render CSV")
      [] format = "id" -> Chars("failed to write resource ID")

\* C19: when the data sink rejects a Write call while Format is producing
\* output in one of the four formats, Format returns an error that wraps
\* the sink's failure and begins with the failing stage; it never returns
\* success after a rejected write.
C19_WriteFailureReturned ==
    (Done /\ rejected > 0) =>
        /\ err # NoError
        /\ err.wraps = errWrite.wraps
        /\ err.msg = StageOf(args.format) \o Chars(": ") \o errWrite.msg

----------------------------------------------------------------------------
(* Properties of the adapters, the conversions and the fetch *)

\* C12: an adapter call changes nothing but its result (no object, not its
\* input list), and its result is an allocated list as long as the input
\* whose element at each index is the pointer at that index of the input,
\* under the adapter's kind: nothing is copied, dropped or merged.
C12_AdaptersProject ==
    [][(fpc = "returned" /\ fpc' = "adapted") =>
          /\ heap' = heap /\ ret' = ret /\ list' = list
          /\ ~adapted'.out.isNil
          /\ Len(adapted'.out.items) = Len(adapted'.in.items)
          /\ \A i \in 1..Len(adapted'.in.items) :
                /\ adapted'.out.items[i].ptr = adapted'.in.items[i]
                /\ adapted'.out.items[i].kind = client]_vars

C12_Witness ==
    /\ fpc = "adapted" /\ client = "organization" /\ Len(heap) = 2
    /\ heap[1] = heap[2]
    /\ adapted.in.items = <<2, 0>>
    /\ adapted.out.items[1].ptr = 2 /\ adapted.out.items[2].ptr = 0

\* The conversions made so far, each the wire record and the pointer it
\* was converted to: the one called by itself, or those of the fetch.
Conversions ==
    IF fpc = "converted" THEN { <<conv.pb, conv.ptr>> }
    ELSE { <<it.recs[i], list.items[i]>> : i \in 1..Len(list.items) }

\* C13: converting a nil wire record, of either kind, returns a nil
\* pointer (and makes no object).
C13_NilConvertsToNil ==
    (fpc = "converted" /\ conv.pb.isNil) => (conv.ptr = 0 /\ heap = <<>>)

PrefixOf(k) == IF k = "folder" THEN Chars("folders/") ELSE Chars("organizations/")

\* C14: every conversion of a wire record returns an object; its ID is the
\* rest of the wire name after the kind's prefix when the name starts with
\* the prefix, and the whole name otherwise; its Name is the wire name.
C14_IDIsNameWithoutPrefix ==
    \A c \in Conversions :
        ~c[1].isNil =>
            /\ c[2] # 0
            /\ heap[c[2]].Name = c[1].Name
            /\ IF HasPrefix(c[1].Name, PrefixOf(client))
               THEN PrefixOf(client) \o heap[c[2]].ID = c[1].Name
               ELSE heap[c[2]].ID = c[1].Name

C14_Witness ==
    /\ fpc = "returned" /\ client = "folder" /\ Len(list.items) = 2
    /\ heap[list.items[1]].ID = Chars("folders/3")
    /\ heap[list.items[1]].Name = Chars("folders/folders/3")
    /\ heap[list.items[2]].ID = Chars("organizations/7")

\* C15: every resource of a list a fetch returned without an error has a
\* non-empty ID.
C15_FetchedIDsNonEmpty ==
    (fpc \in {"returned", "adapted"} /\ ret.err = NoError) =>
        \A i \in 1..Len(ret.list.items) :
            /\ ret.list.items[i] # 0
            /\ heap[ret.list.items[i]].ID # <<>>

\* The seconds since the Unix epoch of a civil time.
UnixOf(t) ==
    LET y == IF t.M <= 2 THEN t.Y - 1 ELSE t.Y
        era == y \div 400
        yoe == y - era * 400
        doy == (153 * (IF t.M > 2 THEN t.M - 3 ELSE t.M + 9) + 2) \div 5
               + t.D - 1
        doe == yoe * 365 + yoe \div 4 - yoe \div 100 + doy
    IN (era * 146097 + doe - 719468) * 86400
       + t.h * 3600 + t.m * 60 + t.s

\* A time field holds what its timestamp says: the zero instant for none.
HoldsInstant(t, ts) ==
    IF ts.isNil THEN t = ZeroTime
    ELSE /\ t # ZeroTime
         /\ t.M \in 1..12 /\ t.D \in 1..31
         /\ UnixOf(t) = ts.seconds

\* C16: in every conversion of a wire record CreateTime holds the instant
\* of the record's create timestamp, or the zero instant when it has none,
\* and UpdateTime likewise for the update timestamp, each whatever the
\* other is; the conversion returns an object all the same.
C16_TimestampsIndependent ==
    \A c \in Conversions :
        ~c[1].isNil =>
            /\ c[2] # 0
            /\ HoldsInstant(heap[c[2]].CreateTime, c[1].CreateTime)
            /\ HoldsInstant(heap[c[2]].UpdateTime, c[1].UpdateTime)

C16_Witness ==
    /\ fpc = "converted" /\ client = "organization" /\ conv.ptr = 1
    /\ conv.pb.CreateTime = NilTimestamp /\ ~conv.pb.UpdateTime.isNil
    /\ heap[1].CreateTime = ZeroTime
    /\ heap[1].UpdateTime = Time2023

\* C27: a fetch whose iterator ends in an error other than Done returns a
\* nil list and an error that wraps the iterator's under the fetch's text,
\* however many records were read before; a fetch whose iterator reaches
\* Done returns a nil error and a list with one pointer per record
\* yielded, in order, each to the conversion of that record.
C27_FetchAllOrNothing ==
    (fpc \in {"returned", "adapted"}) =>
        IF it.end # "Done"
        THEN /\ ret.list = NilSlice
             /\ ret.err.wraps = IterError(it.end).wraps
             /\ ret.err.msg =
                  Chars(IF client = "folder" THEN "failed to iterate all folders"
                        ELSE "failed to iterate organizations")
                  \o Chars(": ") \o IterError(it.end).msg
        ELSE /\ ret.err = NoError
             /\ Len(ret.list.items) = Len(it.recs)
             /\ \A i \in 1..Len(it.recs) :
                   /\ ret.list.items[i] = i
                   /\ PointerTo(heap[i]) = FromProto(client, it.recs[i])

C27_Witness ==
    /\ fpc = "returned" /\ it.end = "Err" /\ Len(it.recs) = 2 /\ Len(heap) = 2
    /\ ret.list = NilSlice /\ ret.err # NoError

\* The first Write call of the "id" call that the sink rejects, 0 for none.
FirstRejected ==
    LET failed == { k \in 1..Len(Items) : k \in f.fails }
    IN IF failed = {} THEN 0
       ELSE CHOOSE k \in failed : \A j \in failed : k <= j

\* C29: in "id" format, when the sink rejects the write of the k-th
\* identifier, Format returns an error that wraps the sink's with the text
\* "failed to write resource ID", the sink holds the lines of resources
\* 1..k-1 in input order and nothing else, and no later write was tried:
\* exactly one write was rejected, whatever the sink would have done next.
C29_IDStopsAtFirstFailure ==
    (Done /\ args.format = "id" /\ FirstRejected > 0) =>
        /\ err.wraps = errWrite.wraps
        /\ err.msg = Chars("failed to write resource ID: ") \o errWrite.msg
        /\ writer = Concat([i \in 1..(FirstRejected - 1) |->
                               GetID(Items[i]) \o <<NL>>])
        /\ rejected = 1
        /\ stderr = <<>>

C29_Witness ==
    /\ Done /\ args.format = "id" /\ Len(Items) = 2 /\ f.fails = {2}
    /\ writer = GetID(Items[1]) \o <<NL>>
    /\ err # NoError

----------------------------------------------------------------------------
(* The formatter over several calls *)

\* What the i-th call would write and return on a formatter like f that
\* was never called.
Isolated(i) ==
    FormatResult(f, calls[i].resources, calls[i].format, calls[i].headers)

\* C28: Format leaves the formatter's configuration (sink behaviour,
\* verbosity, label) as it was and leaves the lists of the earlier calls
\* as they were passed; after any sequence of calls the data sink holds
\* the concatenation, in call order, of what each call writes on its own,
\* the diagnostic stream likewise, and the error is the last call's own.
C28_FormatterStateless ==
    /\ [](/\ writer = Concat([i \in 1..Len(calls) |-> Isolated(i).writer])
          /\ stderr = Concat([i \in 1..Len(calls) |-> Isolated(i).stderr])
          /\ Len(calls) > 0 => err = Isolated(Len(calls)).err)
    /\ [][/\ f' = f
          /\ Len(calls') >= Len(calls)
          /\ SubSeq(calls', 1, Len(calls)) = calls
          /\ Len(calls') > Len(calls) => calls'[Len(calls')] = args']_vars

C28_Witness ==
    /\ Len(calls) = 2 /\ pc = "done" /\ f.verbose
    /\ calls[1].format = "id" /\ calls[1].resources = NilSlice
    /\ calls[2].format = "table" /\ Len(calls[2].resources.items) = 2
    /\ stderr # <<>> /\ writer # <<>>
    /\ writer = Isolated(2).writer

----------------------------------------------------------------------------
(* Properties of the commands *)

Happened(e) == \E i \in 1..Len(events) : events[i] = e

BothParents ==
    cmd.name = "folders" /\ cmd.parentFolder # <<>>
    /\ cmd.parentOrganization # <<>>

\* C21: the folders command given both --parent-folder and
\* --parent-organization never calls the fetch and never formats: nothing
\* reaches standard output; it returns an error, and that error is
\* ErrMutuallyExclusiveFlags when the service was created.
C21_BothParentsRefused ==
    BothParents =>
        /\ ~Happened("Fetch") /\ service.fetcherCalls = 0 /\ fpc = "start"
        /\ ~Happened("Format") /\ writer = <<>> /\ calls = <<>>
        /\ cpc = "returned" =>
              /\ cret # NoError
              /\ service.created => cret = ErrMutuallyExclusiveFlags

C21_Witness ==
    /\ BothParents /\ cpc = "returned" /\ service.created
    /\ cret = ErrMutuallyExclusiveFlags /\ writer = <<>>

\* C22: the folders command given both parent flags returns
\* ErrMutuallyExclusiveFlags without having tried to create the service,
\* whether or not the credentials can be resolved.
C22_FlagsBeforeService ==
    (BothParents /\ cpc = "returned") =>
        /\ cret = ErrMutuallyExclusiveFlags
        /\ ~Happened("NewService") /\ ~service.created

\* The number of Close calls among the events.
Closes == Cardinality({ i \in 1..Len(events) : events[i] = "Close" })

\* C23: in the folders and the organizations command service.Close is
\* called only as the last thing the command does, after the fetch and
\* the formatting; a command that has returned has called it exactly once
\* when the service was created, on every path, and never otherwise.
C23_ClosedExactlyOnce ==
    (cmd.name \in {"folders", "organizations"}) =>
        /\ service.closed = Closes
        /\ cpc # "returned" => Closes = 0
        /\ cpc = "returned" =>
              /\ Closes = IF service.created THEN 1 ELSE 0
              /\ service.created => events[Len(events)] = "Close"
              /\ ~service.created => events = <<"NewService">>

C23_Witness ==
    /\ cmd.name = "organizations" /\ cmd.format = "xml" /\ cpc = "returned"
    /\ cret.wraps = "ErrUnsupportedOutputFormat"
    /\ events = <<"NewService", "Fetch", "Format", "Close">>
    /\ service.closed = 1

\* The service's call of the fetcher has returned to the service's caller.
ServiceReturned == Happened("Fetch") /\ cpc \in {"fetched", "closing", "returned"}

\* C24: one Service.ListFolders invocation calls the fetcher's ListFolders
\* exactly once, with the options it was given, or with default options
\* (empty Parent) when it was given nil; when the fetcher returns an error
\* the service returns a nil list and that error wrapped under "failed to
\* list folders", and otherwise the fetcher's list as it is and no error.
C24_ServiceListFolders ==
    (KindOf(cmd.name) = "folder" /\ Happened("Fetch")) =>
        /\ service.fetcherCalls = 1
        /\ Cardinality({ i \in 1..Len(events) : events[i] = "Fetch" }) = 1
        /\ ~opts.isNil
        /\ IF service.arg.isNil THEN opts.Parent = <<>> ELSE opts = service.arg
        /\ ServiceReturned =>
              IF ret.err # NoError
              THEN /\ service.ret.list = NilSlice
                   /\ service.ret.err.wraps = ret.err.wraps
                   /\ service.ret.err.msg =
                        Chars("failed to list folders: ") \o ret.err.msg
              ELSE /\ service.ret.err = NoError
                   /\ service.ret.list = ret.list
                   /\ ret.list.items = [i \in 1..Len(it.recs) |-> i]

C24_Witness ==
    /\ cmd.name = "ListFolders" /\ cpc = "returned" /\ service.arg.isNil
    /\ opts = NewFetchOptions
    /\ Len(service.ret.list.items) = 2 /\ service.ret.err = NoError

\* s ends with t.
HasSuffix(s, t) ==
    Len(s) >= Len(t) /\ SubSeq(s, Len(s) - Len(t) + 1, Len(s)) = t

\* The command has handled the error its fetch returned.
ErrorHandled ==
    /\ cmd.name \in {"folders", "organizations"}
    /\ cpc \in {"closing", "returned"}
    /\ Happened("Fetch") /\ service.ret.err # NoError

\* C25: the error a command returns for a failed fetch is the fetch's
\* error itself unless that carries the gRPC code PermissionDenied; then
\* it is a new error that wraps the fetch's error, ends with its text and
\* begins with "permission denied: insufficient permissions": "to list
\* folders under parent <parent>" for the folders command with a parent,
\* "to search folders" for the folders command without one, and "to
\* search organizations" for the organizations command.
C25_OnlyPermissionDeniedChanged ==
    ErrorHandled =>
        LET e == service.ret.err
            parent == FlagOptions(cmd).Parent
        IN IF it.end = "Denied"
           THEN /\ cret # e
                /\ cret.wraps = e.wraps
                /\ HasSuffix(cret.msg, Chars("Original error: ") \o e.msg)
                /\ HasPrefix(cret.msg,
                     Chars("permission denied: insufficient permissions")
                     \o (IF cmd.name = "organizations"
                         THEN Chars(" to search organizations.")
                         ELSE IF parent = <<>>
                         THEN Chars(" to search folders.")
                         ELSE Chars(" to list folders under parent ")
                              \o parent \o Chars(".")))
           ELSE cret = e

C25_Witness ==
    /\ ErrorHandled /\ cmd.name = "folders" /\ it.end = "Denied"
    /\ cmd.parentOrganization = Chars("7") /\ Len(heap) = 1
    /\ Contains(cret.msg, Chars("under parent organizations/7."))
    /\ Contains(cret.msg, Chars("failed to list folders: failed to iterate all folders: rpc error: code = PermissionDenied"))

\* C26: the query of a folder search is "state:ACTIVE" when the options'
\* Parent is empty, without any parent clause, and "state:ACTIVE AND
\* parent:<Parent>" otherwise; the folders command's Parent is
\* "folders/<id>" for --parent-folder, "organizations/<id>" for
\* --parent-organization and empty when neither flag is given.
C26_SearchQuery ==
    (KindOf(cmd.name) = "folder" /\ Happened("Fetch")) =>
        /\ IF opts.Parent = <<>>
           THEN req.Query = Chars("state:ACTIVE")
                /\ ~Contains(req.Query, Chars("parent"))
           ELSE req.Query = Chars("state:ACTIVE AND parent:") \o opts.Parent
        /\ cmd.name = "folders" =>
              opts.Parent =
                 IF cmd.parentFolder # <<>> /\ cmd.parentOrganization = <<>>
                 THEN Chars("folders/") \o cmd.parentFolder
                 ELSE IF cmd.parentOrganization # <<>> /\ cmd.parentFolder = <<>>
                 THEN Chars("organizations/") \o cmd.parentOrganization
                 ELSE <<>>

C26_Witness ==
    /\ cmd.name = "folders" /\ Happened("Fetch")
    /\ cmd.parentFolder = Chars("9")
    /\ req.Query = Chars("state:ACTIVE AND parent:folders/9")

\* C30: OutputFolders and OutputOrganizations, whether called by the
\* command after a fetch that found nothing or by themselves, given
\* format "json" and a list that is nil or empty write the empty array []
\* and a newline to standard output, never null, and return no error; the
\* adapter's list is allocated.
C30_EmptyJSONEndToEnd ==
    (Happened("Format") /\ cmd.format = "json" /\ Len(adapted.in.items) = 0) =>
        /\ ~adapted.out.isNil
        /\ writer = Chars("[]") \o <<NL>>
        /\ ~Contains(writer, Chars("null"))
        /\ cret = NoError

C30_Witness ==
    /\ cmd.name = "organizations" /\ cpc = "returned" /\ cmd.format = "json"
    /\ adapted.in = NilSlice /\ service.ret.list = NilSlice
    /\ events = <<"NewService", "Fetch", "Format", "Close">>
    /\ writer = Chars("[]") \o <<NL>>

====
